---- MODULE Spec2Model ----
(***************************************************************************)
(* A model of bugger.py: the template resolver (normalize), the Command    *)
(* state machine (Command.__call__), the render surface (Writer), the      *)
(* timer signal handler (Bugger._animate) and the orchestrator             *)
(* (Bugger.__call__ / Bugger._run).                                        *)
(*                                                                         *)
(* Text is modelled as a sequence of one-character strings, so that        *)
(* bracket matching, splitting and slicing are computed as the code        *)
(* computes them.                                                          *)
(***************************************************************************)
EXTENDS Integers, Sequences, FiniteSets, TLC

(***************************************************************************)
(* Bounds of the model.                                                    *)
(***************************************************************************)
\* number of commands of a run (over all groups)
NumCmds == 3
\* timer signals delivered during one run
MaxTicks == 2
\* iterations (loop rounds plus nested calls) one call of normalize may take
MaxResolve == 6
\* the processes the commands may leave behind
MaxProcs == 3

(***************************************************************************)
(* Command.STATE_* (bugger.py 278-284)                                     *)
(***************************************************************************)
STATE_NEW == 0
STATE_SUCCESSFUL == 1
STATE_SIGNALED == 2
STATE_FAILED == 3
STATE_TIMED_OUT == 4
STATE_SKIPPED == 5
STATE_EXECUTING == 6

\* len(ANIMATION): forward_backward of a list of 15 frames, 15 + 14
ANIMATION_LEN == 29

(***************************************************************************)
(* Text helpers.                                                           *)
(***************************************************************************)
\* s[a:b] of Python, for 1-based inclusive positions lo..hi
Slice(s, lo, hi) == IF lo > hi THEN <<>> ELSE SubSeq(s, lo, hi)

\* the position of the first sep at or after i, Len(s)+1 if there is none
RECURSIVE IndexFrom(_, _, _)
IndexFrom(s, sep, i) ==
    IF i > Len(s) THEN Len(s) + 1
    ELSE IF s[i] = sep THEN i
    ELSE IndexFrom(s, sep, i + 1)

\* str.split(sep) for a one-character separator
RECURSIVE Split(_, _)
RECURSIVE SplitAt(_, _, _)
Split(s, sep) == SplitAt(s, sep, IndexFrom(s, sep, 1))
SplitAt(s, sep, j) ==
    IF j > Len(s) THEN <<s>>
    ELSE <<Slice(s, 1, j - 1)>> \o Split(Slice(s, j + 1, Len(s)), sep)

\* str.find(sub) >= 0
Contains(s, sub) ==
    \E i \in 1..(Len(s) - Len(sub) + 1) : Slice(s, i, i + Len(sub) - 1) = sub

(***************************************************************************)
(* Exceptions: the kind of error and the text str(e) gives.                *)
(***************************************************************************)
\* err is the text of the error: its kind, then what it names
Raise(kind, arg) == [ok |-> FALSE, err |-> <<kind>> \o arg]
Return(v) == [ok |-> TRUE, val |-> v]

(***************************************************************************)
(* normalize for a string (bugger.py 113-185).                             *)
(***************************************************************************)
\* re.search(regex, s): the first "$" followed by "{" or "(", 0 for no match
RECURSIVE SearchFrom(_, _)
SearchFrom(s, i) ==
    IF i >= Len(s) THEN 0
    ELSE IF s[i] = "$" /\ s[i + 1] \in {"{", "("} THEN i
    ELSE SearchFrom(s, i + 1)

\* pairs: the closing token of an opening token
closeToken(openToken) == IF openToken = "{" THEN "}" ELSE ")"

\* the loop of findMatching from position i with `count` brackets open:
\* the position where count reaches 0, 0 when the loop ends without one
\* (None), -1 when s[i + 1] is read past the end of s (IndexError)
RECURSIVE MatchFrom(_, _, _, _)
RECURSIVE Counted(_, _, _, _)
MatchFrom(s, i, count, openToken) ==
    IF i > Len(s) THEN 0
    ELSE IF s[i] = "$" /\ i = Len(s) THEN -1
    ELSE Counted(s, i, openToken,
                 IF s[i] = "$" /\ s[i + 1] = openToken THEN count + 1
                 ELSE IF s[i] = closeToken(openToken) THEN count - 1
                 ELSE count)
Counted(s, i, openToken, count) ==
    IF count = 0 THEN i ELSE MatchFrom(s, i + 1, count, openToken)

\* findMatching(s, idx): idx is the position of the "$"
findMatching(s, idx) == MatchFrom(s, idx + 1, 1, s[idx + 1])

\* the str methods the model knows: getattr(str, name)(n)
UpperOf(ch) ==
    CASE ch = "a" -> "A" [] ch = "b" -> "B" [] ch = "d" -> "D"
      [] ch = "h" -> "H" [] ch = "i" -> "I" [] ch = "x" -> "X"
      [] OTHER -> ch
LowerOf(ch) ==
    CASE ch = "A" -> "a" [] ch = "B" -> "b" [] ch = "D" -> "d"
      [] ch = "H" -> "h" [] ch = "I" -> "i" [] ch = "X" -> "x"
      [] ch = "K" -> "k" [] ch = "U" -> "u"
      [] OTHER -> ch
ApplyFilter(filter_name, n) ==
    CASE filter_name = <<"u", "p", "p", "e", "r">> ->
            Return([i \in 1..Len(n) |-> UpperOf(n[i])])
      [] filter_name = <<"l", "o", "w", "e", "r">> ->
            Return([i \in 1..Len(n) |-> LowerOf(n[i])])
      [] filter_name = <<"s", "p", "l", "i", "t">> ->
            \* f(n) is a list: the concatenation of line 185 raises
            Raise("TypeError", <<>>)
      [] OTHER -> Raise("No such filter", filter_name)

\* the result of one filter is the input of the next, an error ends it
RECURSIVE ApplyFilters(_, _)
Filtered(filter_names, r) ==
    IF r.ok THEN ApplyFilters(filter_names, r.val) ELSE r
ApplyFilters(filter_names, n) ==
    IF filter_names = <<>> THEN Return(n)
    ELSE Filtered(Tail(filter_names), ApplyFilter(Head(filter_names), n))

\* lines 161-178: parts is what follows the name, split at ":"
Lookup(n, parts, filter_names, environ) ==
    IF n \in DOMAIN environ THEN ApplyFilters(filter_names, environ[n])
    ELSE IF parts # <<>> /\ parts[1] # <<>> /\ parts[1][1] = "-"
    THEN ApplyFilters(filter_names, Tail(parts[1]))
    ELSE Raise("Unresolved environment variable", n)

\* lines 154-160: parts1 is the text split at "|", parts2 its head at ":"
Named(parts2, filter_names, environ) ==
    Lookup(Head(parts2), Tail(parts2), filter_names, environ)
Piped(parts1, environ) ==
    Named(Split(Head(parts1), ":"), Tail(parts1), environ)

\* the "${" branch: n0 is the resolved text between the brackets
Reference(n0, environ) == Piped(Split(n0, "|"), environ)

\* /bin/bash -c n on the modelled machine: return code and output
Bash(n) ==
    CASE n = <<"t">> -> [returncode |-> 0, stdout |-> <<>>]
      [] n = <<"e">> -> [returncode |-> 0, stdout |-> <<"h", "i">>]
      [] n = <<"f">> -> [returncode |-> 1, stdout |-> <<>>]
      [] OTHER -> [returncode |-> 127, stdout |-> <<"?">>]

\* the "$(" branch
Captured(proc, n) ==
    IF proc.returncode # 0 THEN Raise("Could not execute command", n)
    ELSE Return(proc.stdout)
ShellExpr(n) == Captured(Bash(n), n)

\* a call that uses up its rounds stands for one that does not return
NoReturn == [ok |-> FALSE, err |-> <<"(no return)">>]
Returns(r) == IF r.ok THEN TRUE ELSE r.err # NoReturn.err

\* the loop of lines 143-185, one round per call: idx1 is where the regex
\* matches, idx2 where findMatching ends, inner the resolved text between
\* the brackets and n what it stands for
RECURSIVE normalizeStr(_, _, _)
RECURSIVE Found(_, _, _, _)
RECURSIVE Matched(_, _, _, _, _)
RECURSIVE Inner(_, _, _, _, _, _)
RECURSIVE Replaced(_, _, _, _, _, _)
normalizeStr(s, environ, fuel) == Found(s, environ, fuel, SearchFrom(s, 1))
Found(s, environ, fuel, idx1) ==
    IF idx1 = 0 THEN Return(s)
    ELSE IF fuel = 0 THEN NoReturn
    ELSE Matched(s, environ, fuel, idx1, findMatching(s, idx1))
Matched(s, environ, fuel, idx1, idx2) ==
    IF idx2 = 0 THEN Raise("Missing closing bracket", <<>>)
    ELSE IF idx2 = -1 THEN Raise("IndexError", <<>>)
    ELSE Inner(s, environ, fuel, idx1, idx2,
               normalizeStr(Slice(s, idx1 + 2, idx2 - 1), environ, fuel - 1))
Inner(s, environ, fuel, idx1, idx2, inner) ==
    IF ~inner.ok THEN inner
    ELSE Replaced(s, environ, fuel, idx1, idx2,
                  IF s[idx1 + 1] = "{" THEN Reference(inner.val, environ)
                  ELSE ShellExpr(inner.val))
Replaced(s, environ, fuel, idx1, idx2, n) ==
    IF ~n.ok THEN n
    ELSE normalizeStr(Slice(s, 1, idx1 - 1) \o n.val
                        \o Slice(s, idx2 + 1, Len(s)),
                      environ, fuel - 1)

normalize(s, environ) == normalizeStr(s, environ, MaxResolve)

\* normalize for a list of strings (line 119): the first error is raised
Cons(h, t) ==
    IF ~h.ok THEN h ELSE IF ~t.ok THEN t ELSE Return(<<h.val>> \o t.val)
RECURSIVE normalizeList(_, _)
normalizeList(l, environ) ==
    IF l = <<>> THEN Return(<<>>)
    ELSE Cons(normalize(Head(l), environ), normalizeList(Tail(l), environ))

(***************************************************************************)
(* The state of the program.                                               *)
(***************************************************************************)
VARIABLES
    conf,           \* Command._conf of every command (mutated by line 391)
    group,          \* the group every command belongs to, in order
    settings,       \* Bugger._settings
    rows,           \* get_terminal_size()[0]
    environ,        \* os.environ
    state,          \* Command.state
    output,         \* Command.output (None before it is set)
    duration,       \* Command.duration is set (not None)
    signal,         \* Command.signal (0 while the attribute is not set)
    animation_idx,  \* Command._animation_idx
    skip,           \* the local skip of Bugger._run
    cur,            \* the command the loop of Bugger._run is at
    pc,             \* the place of the main flow
    exc,            \* the exception being handled or that ended the run
    detail,         \* the text _fail is about to be called with
    result,         \* the return value of Bugger.__call__ (-1 before)
    timer,          \* the interval timer is armed
    ticks,          \* signals handled so far
    stdout_open,    \* the reader of sys.stdout is still there
    indentation,    \* Writer.indentation of stdout
    clean,          \* Writer.clean of stdout
    line,           \* who wrote what is on the terminal's current line
    called,         \* how often c() and each callback of c have been invoked
    saved,          \* _save has written the results
    listing,        \* the commands the last painting of the screen listed
    procs,          \* the processes below the runner: parent, status, owner
    children_pids,  \* the list of _reap_children (710) not yet gone through
    arg,            \* the arguments of a function called on its own
    ret             \* what that call has returned or raised

\* the variables of the run of the commands
run_vars == <<conf, group, settings, rows, environ, state, output, duration,
              signal, animation_idx, skip, cur, exc, detail, result, timer,
              ticks, stdout_open, indentation, clean, line, called,
              saved, listing>>
\* the variables of a function called on its own
call_vars == <<arg, ret>>
\* the variables of the processes left behind
proc_vars == <<procs, children_pids>>

vars == <<run_vars, pc, proc_vars, call_vars>>

Cmds == 1..NumCmds
None == <<"None">>

(***************************************************************************)
(* The machine the commands run on: what run([path] + args, ...) gives.    *)
(*   t  exits 0 and prints nothing        e  exits 0 and prints args[0]    *)
(*   f  exits 1 and prints "no"           k  is killed by signal 9         *)
(*   s  never exits by itself             z  exits 0 and prints a NUL byte *)
(*   r  exits 0 and prints the four characters ${A}                       *)
(* any other path is no executable (FileNotFoundError).                    *)
(***************************************************************************)
NUL == "\\0"
Program(path, args) ==
    CASE path = <<"t">> -> [kind |-> "exit", returncode |-> 0, stdout |-> <<>>]
      [] path = <<"e">> -> [kind |-> "exit", returncode |-> 0,
                            stdout |-> IF args = <<>> THEN <<>> ELSE args[1]]
      [] path = <<"f">> -> [kind |-> "exit", returncode |-> 1,
                            stdout |-> <<"n", "o">>]
      [] path = <<"k">> -> [kind |-> "exit", returncode |-> -9, stdout |-> <<>>]
      [] path = <<"z">> -> [kind |-> "exit", returncode |-> 0,
                            stdout |-> <<NUL>>]
      [] path = <<"r">> -> [kind |-> "exit", returncode |-> 0,
                            stdout |-> <<"$", "{", "A", "}">>]
      [] path = <<"s">> -> [kind |-> "hang", returncode |-> 0, stdout |-> <<>>]
      [] OTHER -> [kind |-> "oserror", returncode |-> 0, stdout |-> <<>>]

(***************************************************************************)
(* Command: attribute fallback and the resolved properties.                *)
(***************************************************************************)
\* Command.__getattr__(name): [has |-> FALSE] stands for None
AttrGlobalFirst(cf, sett, name) ==
    IF name \in DOMAIN sett THEN [has |-> TRUE, val |-> sett[name]]
    ELSE IF "settings" \in DOMAIN cf /\ name \in DOMAIN cf["settings"]
    THEN [has |-> TRUE, val |-> cf["settings"][name]]
    ELSE [has |-> FALSE]
Attr(cf, sett, name) ==
    IF "settings" \in DOMAIN cf /\ name \in DOMAIN cf["settings"]
    THEN [has |-> TRUE, val |-> cf["settings"][name]]
    ELSE IF name \in DOMAIN sett THEN [has |-> TRUE, val |-> sett[name]]
    ELSE [has |-> FALSE]

\* the truth value Python gives c.__getattr__('exit-on-fail') in line 673
Truthy(a) == a.has /\ a.val = TRUE
ExitOnFail(cf, sett) == Truthy(Attr(cf, sett, "exit-on-fail"))

\* the first error of a family of results rs, else the values
Collected(rs) ==
    IF \E k \in DOMAIN rs : ~rs[k].ok
    THEN rs[CHOOSE k \in DOMAIN rs : ~rs[k].ok]
    ELSE Return([k \in DOMAIN rs |-> rs[k].val])

\* normalize_dict(d, os.environ): the values resolved, or the error of an
\* entry that does not resolve
normalize_dict(d, env) == Collected([k \in DOMAIN d |-> normalize(d[k], env)])

\* dict_concat(a, b): the entries of b shadow those of a
dict_concat(a, b) == b @@ a

\* Command.env
Merged(env, r) == IF r.ok THEN Return(dict_concat(env, r.val)) ELSE r
Env(cf, env) ==
    IF "environment" \notin DOMAIN cf THEN Return(env)
    ELSE Merged(env, normalize_dict(cf["environment"], env))

\* Command.name, e being self.env
NameIn(cf, e) == IF e.ok THEN normalize(cf["name"], e.val) ELSE e
NameOf(cf, env) == NameIn(cf, Env(cf, env))

\* Command.path, e being self.env
PathIn(cf, e) ==
    IF ~e.ok THEN e
    ELSE IF "exec" \in DOMAIN cf THEN normalize(cf["exec"], e.val)
    ELSE IF <<"S", "H", "E", "L", "L">> \in DOMAIN e.val
         THEN Return(e.val[<<"S", "H", "E", "L", "L">>])
    ELSE Return(<<"/", "b", "i", "n", "/", "s", "h">>)

\* Command.args, e being self.env
ArgsIn(cf, e) ==
    IF "exec" \in DOMAIN cf
    THEN IF "arguments" \in DOMAIN cf
         THEN IF e.ok THEN normalizeList(cf["arguments"], e.val) ELSE e
         ELSE Return(<<>>)
    ELSE Return(<<<<"-", "c">>, cf["system"]>>)

\* [c.path] + c.args, as the callbacks and line 397 evaluate it
CommandLineIn(cf, e) == Cons(PathIn(cf, e), ArgsIn(cf, e))
CommandLine(cf, env) == CommandLineIn(cf, Env(cf, env))

\* Command.strout
NoOutputSet == <<"<<< NO OUTPUT SET >>>">>
strout(out) == IF out = None THEN NoOutputSet ELSE out

(***************************************************************************)
(* Lines 390-391: every field of the descriptor is resolved in place, in   *)
(* the order the descriptor lists them.                                    *)
(***************************************************************************)
KeyOrder == <<"name", "exec", "system", "arguments", "environment",
              "settings", "stdout-to-env", "output-matches",
              "!output-matches", "output-contains", "!output-contains",
              "success-command">>

\* the resolved text r put back where it came from
WithChdir(val, r) == IF r.ok THEN Return([val EXCEPT !["chdir"] = r.val]) ELSE r
Tagged(isList, r) == IF r.ok THEN Return([list |-> isList, v |-> r.val]) ELSE r

\* normalize(val, env) for the value of one key of the descriptor
normalizeValue(key, val, env) ==
    CASE key \in {"name", "exec", "system", "stdout-to-env",
                  "success-command"} -> normalize(val, env)
      [] key = "arguments" -> normalizeList(val, env)
      [] key = "environment" -> normalize_dict(val, env)
      [] key = "settings" ->
            \* booleans and integers pass; chdir is a string
            IF "chdir" \in DOMAIN val
            THEN WithChdir(val, normalize(val["chdir"], env))
            ELSE Return(val)
      [] OTHER ->
            \* the output assertions: a string, or a list of strings
            IF val.list THEN Tagged(TRUE, normalizeList(val.v, env))
            ELSE Tagged(FALSE, normalize(val.v, env))

\* the loop from the key at position i: the descriptor as the loop leaves
\* it, and the error that ended it
RECURSIVE NormalizeFrom(_, _, _)
RECURSIVE NormalizeKey(_, _, _, _)
RECURSIVE NormalizeSet(_, _, _, _)
NormalizeFrom(cf, i, env) ==
    IF i > Len(KeyOrder) THEN [ok |-> TRUE, conf |-> cf]
    ELSE IF KeyOrder[i] \notin DOMAIN cf THEN NormalizeFrom(cf, i + 1, env)
    ELSE NormalizeKey(cf, i, env, Env(cf, env))
\* e is self.env as line 391 evaluates it
NormalizeKey(cf, i, env, e) ==
    IF ~e.ok THEN [ok |-> FALSE, conf |-> cf, err |-> e.err]
    ELSE NormalizeSet(cf, i, env,
                      normalizeValue(KeyOrder[i], cf[KeyOrder[i]], e.val))
\* v is the resolved value of the key
NormalizeSet(cf, i, env, v) ==
    IF ~v.ok THEN [ok |-> FALSE, conf |-> cf, err |-> v.err]
    ELSE NormalizeFrom([cf EXCEPT ![KeyOrder[i]] = v.val], i + 1, env)

NormalizeConf(cf, env) == NormalizeFrom(cf, 1, env)

(***************************************************************************)
(* Lines 402-442: what the return code and the output make of the command. *)
(***************************************************************************)
RECURSIVE JoinLines(_)
JoinLines(l) ==
    IF l = <<>> THEN <<>>
    ELSE IF Len(l) = 1 THEN l[1]
    ELSE l[1] \o <<"\n">> \o JoinLines(Tail(l))

\* lines 404-406
JoinMatches(cf) ==
    [k \in DOMAIN cf |->
        IF k \in {"output-matches", "!output-matches"} /\ cf[k].list
        THEN [list |-> FALSE, v |-> JoinLines(cf[k].v)]
        ELSE cf[k]]

\* m = [m] for a string
AsList(m) == IF m.list THEN m.v ELSE <<m.v>>

SignalName(n) ==
    CASE n = 9 -> "SIGKILL" [] n = 15 -> "SIGTERM" [] OTHER -> "?"

Failed(cf, out) ==
    [raise |-> FALSE, state |-> STATE_FAILED, signal |-> 0,
     detail |-> strout(out)]

\* an assertion that one entry of the list satisfies
AnyContained(m, out, wanted) ==
    \E i \in 1..Len(m) : Contains(strout(out), m[i]) = wanted

\* lines 417 and 424: every entry of the list m is, or is not, in the output
AllContained(m, out, wanted) ==
    \A i \in 1..Len(m) : Contains(strout(out), m[i]) = wanted

\* lines 427-433: p is the finished success-command
SuccessCommand(p) ==
    IF p.returncode # 0
    THEN [raise |-> FALSE, state |-> STATE_FAILED, signal |-> 0,
          detail |-> IF p.stdout # <<>> THEN p.stdout
                     ELSE <<"Success checking command failed">>]
    ELSE [raise |-> FALSE, state |-> STATE_SUCCESSFUL, signal |-> 0,
          detail |-> <<>>]

\* cwd=normalize(self.chdir, self.env) of lines 398 and 429, e being self.env
CwdIn(chdir, e) ==
    IF ~e.ok THEN e
    ELSE IF ~chdir.has THEN Return(<<>>)
    ELSE normalize(chdir.val, e.val)
Cwd(cf, sett, env) == CwdIn(Attr(cf, sett, "chdir"), Env(cf, env))

\* lines 402-442; cf is the descriptor after lines 404-406, expected the
\* expected-exit-code and cwd the directory of the success-command
VerdictIn(cf, expected, cwd, returncode, out) ==
    IF expected.has /\ returncode = expected.val
    THEN IF "output-matches" \in DOMAIN cf
              /\ cf["output-matches"].v # strout(out)
         THEN Failed(cf, out)
         ELSE IF "output-contains" \in DOMAIN cf
                 /\ ~AllContained(AsList(cf["output-contains"]), out, TRUE)
         THEN Failed(cf, out)
         ELSE IF "!output-contains" \in DOMAIN cf
                 /\ ~AllContained(AsList(cf["!output-contains"]), out, FALSE)
         THEN Failed(cf, out)
         ELSE IF "success-command" \in DOMAIN cf
         THEN IF ~cwd.ok THEN [raise |-> TRUE, err |-> cwd.err]
              ELSE SuccessCommand(Bash(cf["success-command"]))
         ELSE [raise |-> FALSE, state |-> STATE_SUCCESSFUL, signal |-> 0,
               detail |-> <<>>]
    ELSE IF returncode < 0
    THEN [raise |-> FALSE, state |-> STATE_SIGNALED,
          signal |-> -returncode,
          detail |-> <<"Terminated by signal ", SignalName(-returncode)>>]
    ELSE Failed(cf, out)
Verdict(cf, sett, env, returncode, out) ==
    VerdictIn(cf, Attr(cf, sett, "expected-exit-code"), Cwd(cf, sett, env),
              returncode, out)

\* os.environ[key] = value raises ValueError for these
PutenvRaises(key, value) ==
    \/ key = <<>>
    \/ \E i \in 1..Len(key) : key[i] \in {"=", NUL}
    \/ \E i \in 1..Len(value) : value[i] = NUL

(***************************************************************************)
(* Group predicates and the layout decision.                               *)
(***************************************************************************)
Groups == {group[c] : c \in Cmds}
CommandsOf(g) == {c \in Cmds : group[c] = g}
\* Command.finished: neither NEW nor EXECUTING
FinishedStates ==
    {STATE_SUCCESSFUL, STATE_FAILED, STATE_SIGNALED, STATE_TIMED_OUT,
     STATE_SKIPPED}
\* Command.failed
FailedStates == {STATE_FAILED, STATE_SIGNALED, STATE_TIMED_OUT}

\* CommandGroup.finished
GroupFinished(g) == ~(\E c \in CommandsOf(g) : state[c] = STATE_NEW)

\* Bugger.current_group: 0 stands for None
current_group ==
    IF \E g \in Groups : ~GroupFinished(g)
    THEN CHOOSE g \in Groups :
            ~GroupFinished(g) /\ \A h \in Groups : h < g => GroupFinished(h)
    ELSE 0

\* Bugger.line_count
line_count == Cardinality(Groups) + NumCmds + 1

\* Bugger.should_collapse (enable-collapse is a boolean here)
should_collapse_at == settings["enable-collapse"] /\ rows <= line_count
should_collapse == settings["enable-collapse"] /\ rows < line_count

\* Bugger.animation_enabled
animation_enabled ==
    "animation" \notin DOMAIN settings \/ settings["animation"]

(***************************************************************************)
(* The descriptors a configuration is made of.                             *)
(***************************************************************************)
Cmd(name, exec) == [name |-> name, exec |-> exec]
Plain == Cmd(<<"a">>, <<"t">>)
ExitOnFailSet == "settings" :> ("exit-on-fail" :> TRUE)

\* descriptors that set the scene for the commands after them
Basic == {
    Cmd(<<"a">>, <<"f">>) @@ ExitOnFailSet,
    Cmd(<<"a">>, <<"e">>) @@ ("arguments" :> <<<<"h", "i">>>>)
        @@ ("stdout-to-env" :> <<"K">>) }

\* descriptors a configuration has at most one of
Special == {
    Plain,
    Cmd(<<"a">>, <<"f">>),
    Cmd(<<"a">>, <<"k">>) @@ ExitOnFailSet,
    Cmd(<<"a">>, <<"k">>)
        @@ ("settings" :> ("expected-exit-code" :> -9)),
    Cmd(<<"a">>, <<"s">>) @@ ExitOnFailSet,
    Cmd(<<"a">>, <<"x">>),
    Cmd(<<"a">>, <<"z">>) @@ ("stdout-to-env" :> <<"K">>),
    Cmd(<<"$", "{", "K", ":", "-", "a", "}">>, <<"e">>)
        @@ ("arguments" :> <<<<"$", "{", "K", "}">>>>),
    Cmd(<<"a">>, <<"e">>)
        @@ ("arguments" :> <<<<"$", "{", "A", "|", "z", "z", "}">>>>),
    Cmd(<<"a">>, <<"e">>) @@ ("arguments" :> <<<<"$", "{", "A">>>>),
    Cmd(<<"a">>, <<"$", "(", "f", ")">>),
    Cmd(<<"$", "{", "U", "}">>, <<"t">>) }

\* the non-decreasing maps of the commands onto groups 1, 2, ...
Layouts ==
    {g \in [Cmds -> Cmds] :
        /\ g[1] = 1
        /\ \A c \in Cmds \ {1} : g[c] \in {g[c - 1], g[c - 1] + 1}}

\* Bugger.__init__ (524-530): the defaults, under the configuration's own
DefaultSettings ==
    ("timeout" :> 10) @@ ("exit-on-fail" :> FALSE)
        @@ ("expected-exit-code" :> 0) @@ ("animation" :> TRUE)
        @@ ("enable-collapse" :> TRUE)

Min(S) == CHOOSE x \in S : \A y \in S : x <= y

(***************************************************************************)
(* The processes below the runner, which is a child subreaper (42).        *)
(***************************************************************************)
Pids == 1..MaxProcs
\* os.getpid() of the runner, as a parent
my_pid == 0

\* a process: its parent, whether it runs, is a zombie or is none, and
\* whether the runner's user may signal it
Proc(ppid, st, owned) == [ppid |-> ppid, st |-> st, owned |-> owned]
NoProc == Proc(my_pid, "none", TRUE)
NoProcs == [p \in Pids |-> NoProc]

\* children (74-78): the entries of /proc whose PPid is parent_pid
children(parent_pid) ==
    {p \in Pids : procs[p].st # "none" /\ procs[p].ppid = parent_pid}

\* the list of line 710, in the order of the pids
RECURSIVE Listed(_)
Listed(S) == IF S = {} THEN <<>> ELSE <<Min(S)>> \o Listed(S \ {Min(S)})

\* the process p dies: it is a zombie until it is waited for, and its
\* children get the runner, the nearest subreaper, as their parent
Dead(p) ==
    [q \in Pids |->
        IF q = p THEN Proc(procs[p].ppid, "zombie", procs[p].owned)
        ELSE IF procs[q].st # "none" /\ procs[q].ppid = p
        THEN Proc(my_pid, procs[q].st, procs[q].owned)
        ELSE procs[q]]

\* the trees of processes the commands may have left behind: a parent
\* runs and is older than its child
Forests ==
    {f \in [Pids -> [ppid : {my_pid} \cup Pids,
                      st : {"none", "running", "zombie"},
                      owned : BOOLEAN]] :
        \A p \in Pids :
            IF f[p].st = "none" THEN f[p] = NoProc
            ELSE f[p].ppid # my_pid =>
                    f[p].ppid < p /\ f[f[p].ppid].st = "running"}

\* Command.__init__ (291-301), Writer.__init__ and the start of
\* Bugger.__call__: nothing has run yet
Constructed ==
    /\ environ = (<<"A">> :> <<"x">>)
    /\ state = [c \in Cmds |-> STATE_NEW]
    /\ output = [c \in Cmds |-> None]
    /\ duration = [c \in Cmds |-> FALSE]
    /\ signal = [c \in Cmds |-> 0]
    /\ animation_idx = [c \in Cmds |-> 0]
    /\ skip = FALSE
    /\ cur = 0
    /\ pc = "pre_run"
    /\ exc = <<>>
    /\ detail = <<>>
    /\ result = -1
    /\ timer = FALSE
    /\ ticks = 0
    /\ stdout_open = TRUE
    /\ indentation = 0
    /\ clean = TRUE
    /\ line = {}
    /\ called = [c \in Cmds |-> [call |-> 0, execute |-> 0, success |-> 0,
                                 failure |-> 0, skipped |-> 0,
                                 detail |-> <<>>]]
    /\ saved = FALSE
    /\ listing = [collapsed |-> FALSE, cmds |-> {}]
    /\ procs = NoProcs
    /\ children_pids = <<>>

\* no function is called on its own
NoCall == arg = <<>> /\ ret = <<>>

\* Bugger.__init__
Init ==
    /\ conf \in {f \in [Cmds -> Basic \cup Special] :
                    Cardinality({c \in Cmds : f[c] \in Special}) <= 1}
    /\ group \in Layouts
    /\ settings \in {("animation" :> a) @@ DefaultSettings : a \in BOOLEAN}
    /\ rows = 25
    /\ Constructed
    /\ NoCall

(***************************************************************************)
(* Helpers of the actions.                                                 *)
(***************************************************************************)
\* what out.write raises once the reader of stdout is gone
BrokenPipe == <<"[Errno 32] Broken pipe">>

\* the first error among the results rs of the commands of S, in order
FirstErr(rs, S) ==
    IF \E c \in S : ~rs[c].ok
    THEN rs[Min({c \in S : ~rs[c].ok})]
    ELSE Return(<<>>)

\* str(c) for the commands of S, in order: the first error
StrErr(S) == FirstErr([c \in Cmds |-> NameOf(conf[c], environ)], S)

\* the commands _print_collapsed_run (640-657) writes a line for
CollapsedShown ==
    {c \in Cmds :
        \/ GroupFinished(group[c]) /\ state[c] \in FailedStates
        \/ ~GroupFinished(group[c]) /\ group[c] = current_group}
\* line 649 writes str(c) and the command line, line 655 str(c)
CollapsedIn(c, n, cl) ==
    IF n.ok /\ GroupFinished(group[c]) THEN cl ELSE n
CollapsedLine(c) ==
    CollapsedIn(c, NameOf(conf[c], environ), CommandLine(conf[c], environ))
CollapsedErr ==
    FirstErr([c \in Cmds |-> CollapsedLine(c)], CollapsedShown)

\* a frame counter that is never advanced
NextFrameStuck(idx) == idx

\* Command._animation
NextFrame(idx) == (idx + 1) % ANIMATION_LEN

Bump(f, c, what) == [f EXCEPT ![c][what] = @ + 1]
Invoked(c, what) == Bump(called, c, what)

\* an exception leaves Bugger.__call__: nothing catches it
Crash(e) == pc' = "crashed" /\ exc' = e

\* an exception leaves the "with term" block of _run (668):
\* Terminal.__exit__ ends a dirty line, which raises when stdout is gone
CrashInWith(e, isClean) ==
    /\ pc' = "crashed"
    /\ IF isClean
       THEN exc' = e /\ indentation' = indentation - 1
            /\ clean' = TRUE /\ UNCHANGED line
       ELSE IF stdout_open
       THEN exc' = e /\ indentation' = indentation - 1
            /\ clean' = TRUE /\ line' = {}
       ELSE exc' = BrokenPipe /\ clean' = FALSE
            /\ UNCHANGED <<indentation, line>>

\* the try of 394-400 without its finally clause
RaiseWithoutFinally(e) ==
    /\ pc' = IF e = <<"TimeoutExpired">> THEN "except_timeout" ELSE "except"
    /\ exc' = e
    /\ UNCHANGED duration

\* an exception raised inside the inner try (394-400): the finally clause
\* records the duration, the handlers of 443-448 get the exception
RaiseInTry(e) ==
    /\ pc' = IF e = <<"TimeoutExpired">> THEN "except_timeout" ELSE "except"
    /\ exc' = e
    /\ duration' = [duration EXCEPT ![cur] = TRUE]

(***************************************************************************)
(* Bugger.__call__ up to the loop of _run.                                 *)
(***************************************************************************)
\* Bugger._print_pre_run (630-638)
Printed(r, next) ==
    /\ Returns(r)
    /\ IF ~stdout_open THEN Crash(BrokenPipe)
       ELSE IF ~r.ok THEN Crash(r.err)
       ELSE pc' = next /\ UNCHANGED exc
\* the groups' commands lines 634-638 have listed
PreListed(r) ==
    listing' = IF stdout_open /\ r.ok
               THEN [collapsed |-> should_collapse,
                     cmds |-> IF should_collapse
                              THEN CommandsOf(current_group) ELSE Cmds]
               ELSE listing
PrintPreRun ==
    /\ pc = "pre_run"
    /\ Printed(StrErr(IF should_collapse THEN CommandsOf(current_group)
                      ELSE Cmds), "set_timer")
    /\ PreListed(StrErr(IF should_collapse THEN CommandsOf(current_group)
                        ELSE Cmds))
    /\ UNCHANGED <<proc_vars, call_vars, saved>>
    /\ UNCHANGED <<conf, group, settings, rows, environ, state, output,
                   duration, signal, animation_idx, skip, cur, detail, result,
                   timer, ticks, stdout_open, indentation, clean, line,
                   called>>

\* Bugger._set_animation_timer (687-690)
SetAnimationTimer ==
    /\ pc = "set_timer"
    /\ timer' = animation_enabled
    /\ pc' = "run_begin"
    /\ UNCHANGED <<proc_vars, call_vars, saved, listing>>
    /\ UNCHANGED <<conf, group, settings, rows, environ, state, output,
                   duration, signal, animation_idx, skip, cur, exc, detail,
                   result, ticks, stdout_open, indentation, clean, line,
                   called>>

\* Bugger._run (661-662): skip = False; term.goto(1, 1)
RunBegin ==
    /\ pc = "run_begin"
    /\ skip' = FALSE
    /\ IF ~stdout_open
       THEN Crash(BrokenPipe) /\ UNCHANGED <<cur, clean>>
       ELSE pc' = "group" /\ cur' = 1 /\ clean' = FALSE /\ UNCHANGED exc
    /\ UNCHANGED <<proc_vars, call_vars, saved, listing>>
    /\ UNCHANGED <<conf, group, settings, rows, environ, state, output,
                   duration, signal, animation_idx, detail, result, timer,
                   ticks, stdout_open, indentation, line, called>>

\* Bugger._run (664-668): the header of the group of cur, or the collapsed
\* listing; then the "with term" block is entered
Headed(r) ==
    /\ Returns(r)
    /\ IF ~stdout_open
       THEN Crash(BrokenPipe) /\ UNCHANGED <<indentation, clean, line>>
       ELSE IF ~r.ok
       THEN Crash(r.err) /\ clean' = TRUE /\ line' = {}
            /\ UNCHANGED indentation
       ELSE /\ pc' = "run"
            /\ indentation' = indentation + 1
            \* restore_pos (657) leaves the writer dirty
            /\ clean' = ~should_collapse
            /\ line' = {}
            /\ UNCHANGED exc
\* Bugger._print_collapsed_run (640-657), when _run calls it (664-665,
\* 675-676): the commands it has listed
Relisted(r) ==
    listing' = IF should_collapse /\ stdout_open /\ r.ok
               THEN [collapsed |-> TRUE, cmds |-> CollapsedShown]
               ELSE listing
GroupHeader ==
    /\ pc = "group"
    /\ Headed(IF should_collapse THEN CollapsedErr ELSE Return(<<>>))
    /\ Relisted(IF should_collapse THEN CollapsedErr ELSE Return(<<>>))
    /\ UNCHANGED <<proc_vars, call_vars, saved>>
    /\ UNCHANGED <<conf, group, settings, rows, environ, state, output,
                   duration, signal, animation_idx, skip, cur, detail, result,
                   timer, ticks, stdout_open, called>>

\* Bugger._run (670-671) and Command.skip (318-319)
RunStep ==
    /\ pc = "run"
    /\ state' = IF skip THEN [state EXCEPT ![cur] = STATE_SKIPPED] ELSE state
    /\ pc' = "call"
    /\ UNCHANGED <<proc_vars, call_vars, saved, listing>>
    /\ UNCHANGED <<conf, group, settings, rows, environ, output, duration,
                   signal, animation_idx, skip, cur, exc, detail, result,
                   timer, ticks, stdout_open, indentation, clean, line,
                   called>>

(***************************************************************************)
(* Command.__call__ (381-448), for the command cur.                        *)
(***************************************************************************)
\* 382-387: a skipped command runs its skip callback and returns; any
\* other becomes EXECUTING
\* line 384 without its return: a skipped command goes on to execute
SkippedFallsThrough(n) ==
    /\ Returns(n)
    /\ called' = Bump(Invoked(cur, "call"), cur, "skipped")
    /\ state' = [state EXCEPT ![cur] = STATE_EXECUTING]
    /\ pc' = "normalize"
    /\ UNCHANGED <<exc, indentation, clean, line>>

\* 382-384: the skip callback of line 575, then the return
Skipped(n) ==
    /\ Returns(n)
    /\ called' = Bump(Invoked(cur, "call"), cur, "skipped")
    /\ IF ~stdout_open THEN CrashInWith(BrokenPipe, clean)
       ELSE IF ~n.ok THEN CrashInWith(n.err, FALSE)
       ELSE pc' = "after" /\ clean' = TRUE /\ line' = {}
            /\ UNCHANGED <<exc, indentation>>
    /\ UNCHANGED state
Call ==
    /\ pc = "call"
    /\ IF state[cur] = STATE_SKIPPED
       THEN Skipped(NameOf(conf[cur], environ))
       ELSE /\ called' = Invoked(cur, "call")
            /\ state' = [state EXCEPT ![cur] = STATE_EXECUTING]
            /\ pc' = "normalize"
            /\ UNCHANGED <<exc, indentation, clean, line>>
    /\ UNCHANGED <<proc_vars, call_vars, saved, listing>>
    /\ UNCHANGED <<conf, group, settings, rows, environ, output, duration,
                   signal, animation_idx, skip, cur, detail, result, timer,
                   ticks, stdout_open>>

\* 390-391: the fields are resolved in place; an error leaves the call
Normalized(r) ==
    /\ Returns(r)
    /\ conf' = [conf EXCEPT ![cur] = r.conf]
    /\ IF r.ok
       THEN pc' = "on_execute" /\ UNCHANGED <<exc, indentation, clean, line>>
       ELSE CrashInWith(r.err, clean)
Normalize ==
    /\ pc = "normalize"
    /\ Normalized(NormalizeConf(conf[cur], environ))
    /\ UNCHANGED <<proc_vars, call_vars, saved, listing>>
    /\ UNCHANGED <<group, settings, rows, environ, state, output, duration,
                   signal, animation_idx, skip, cur, detail, result, timer,
                   ticks, stdout_open, called>>

\* 395-396 with the callback of line 572, first part: term.stdout begins
\* a line
ExecBegin ==
    /\ pc = "on_execute"
    /\ called' = Invoked(cur, "execute")
    /\ IF ~stdout_open
       THEN RaiseInTry(BrokenPipe) /\ UNCHANGED <<clean, line>>
       ELSE pc' = "ex_name" /\ clean' = FALSE /\ line' = {"main"}
            /\ UNCHANGED <<exc, duration>>
    /\ UNCHANGED <<proc_vars, call_vars, saved, listing>>
    /\ UNCHANGED <<conf, group, settings, rows, environ, state, output,
                   signal, animation_idx, skip, cur, detail, result, timer,
                   ticks, stdout_open, indentation>>

\* the callback of line 572, second part: .yellow(str(c))
Titled(n) ==
    IF ~n.ok THEN RaiseInTry(n.err) /\ UNCHANGED line
    ELSE IF ~stdout_open THEN RaiseInTry(BrokenPipe) /\ UNCHANGED line
    ELSE pc' = "ex_cmd" /\ line' = line \cup {"main"}
         /\ UNCHANGED <<exc, duration>>
ExecName ==
    /\ pc = "ex_name"
    /\ animation_idx' = [animation_idx EXCEPT ![cur] = NextFrame(@)]
    /\ Titled(NameOf(conf[cur], environ))
    /\ UNCHANGED <<proc_vars, call_vars, saved, listing>>
    /\ UNCHANGED <<conf, group, settings, rows, environ, state, output,
                   signal, skip, cur, detail, result, timer, ticks,
                   stdout_open, indentation, clean, called>>

\* the callback of line 572, third part: (': ').blue(path and arguments)
Shown(cl) ==
    IF ~stdout_open THEN RaiseInTry(BrokenPipe) /\ UNCHANGED line
    ELSE IF ~cl.ok THEN RaiseInTry(cl.err) /\ line' = line \cup {"main"}
    ELSE pc' = "spawn" /\ line' = line \cup {"main"}
         /\ UNCHANGED <<exc, duration>>
ExecCmd ==
    /\ pc = "ex_cmd"
    /\ Shown(CommandLine(conf[cur], environ))
    /\ UNCHANGED <<proc_vars, call_vars, saved, listing>>
    /\ UNCHANGED <<conf, group, settings, rows, environ, state, output,
                   signal, animation_idx, skip, cur, detail, result, timer,
                   ticks, stdout_open, indentation, clean, called>>

\* 397-398: the child is started
Spawned(cl, cwd) ==
    IF ~cl.ok THEN RaiseInTry(cl.err)
    ELSE IF ~cwd.ok THEN RaiseInTry(cwd.err)
    ELSE IF Program(Head(cl.val), Tail(cl.val)).kind = "oserror"
    THEN RaiseInTry(<<"[Errno 2] No such file or directory: ">>
                    \o Head(cl.val))
    ELSE pc' = "wait" /\ UNCHANGED <<exc, duration>>
Spawn ==
    /\ pc = "spawn"
    /\ Spawned(CommandLine(conf[cur], environ),
               Cwd(conf[cur], settings, environ))
    /\ UNCHANGED <<proc_vars, call_vars, saved, listing>>
    /\ UNCHANGED <<conf, group, settings, rows, environ, state, output,
                   signal, animation_idx, skip, cur, detail, result, timer,
                   ticks, stdout_open, indentation, clean, line, called>>

\* 398-442: run returns or raises TimeoutExpired; the duration and the
\* output are recorded and the outcome is evaluated
\* 397-398: the child the command line cl starts
Started(cl) == Program(Head(cl.val), Tail(cl.val))

\* lines 402-442 without the assignments to self.state
JudgedKeepsState(v) ==
    IF v.raise
    THEN pc' = "except" /\ exc' = v.err /\ UNCHANGED <<state, signal, detail>>
    ELSE /\ UNCHANGED state
         /\ signal' = IF v.state = STATE_SIGNALED
                      THEN [signal EXCEPT ![cur] = v.signal]
                      ELSE signal
         /\ detail' = v.detail
         /\ pc' = IF v.state = STATE_SUCCESSFUL THEN "succeed" ELSE "fail"
         /\ UNCHANGED exc

\* 402-442: v is what the outcome is
Judged(v) ==
    IF v.raise
    THEN pc' = "except" /\ exc' = v.err /\ UNCHANGED <<state, signal, detail>>
    ELSE /\ state' = [state EXCEPT ![cur] = v.state]
         /\ signal' = IF v.state = STATE_SIGNALED
                      THEN [signal EXCEPT ![cur] = v.signal]
                      ELSE signal
         /\ detail' = v.detail
         /\ pc' = IF v.state = STATE_SUCCESSFUL THEN "succeed" ELSE "fail"
         /\ UNCHANGED exc
\* proc is the child, cf the descriptor after lines 404-406
Waited(proc, cf) ==
    IF proc.kind = "hang"
    THEN /\ Attr(conf[cur], settings, "timeout").has
         /\ RaiseInTry(<<"TimeoutExpired">>)
         /\ UNCHANGED <<conf, state, output, signal, detail>>
    ELSE /\ duration' = [duration EXCEPT ![cur] = TRUE]
         /\ output' = [output EXCEPT ![cur] = proc.stdout]
         /\ conf' = [conf EXCEPT ![cur] = cf]
         /\ Judged(Verdict(cf, settings, environ, proc.returncode,
                           proc.stdout))
ChildDone ==
    /\ pc = "wait"
    /\ Waited(Started(CommandLine(conf[cur], environ)),
              JoinMatches(conf[cur]))
    /\ UNCHANGED <<proc_vars, call_vars, saved, listing>>
    /\ UNCHANGED <<group, settings, rows, environ, animation_idx, skip, cur,
                   result, timer, ticks, stdout_open, indentation, clean,
                   line, called>>

\* 435 and Command._succeed (373-379) with the callback of line 573
Reported(n) ==
    IF ~stdout_open
    THEN pc' = "except" /\ exc' = BrokenPipe /\ UNCHANGED <<clean, line>>
    ELSE IF ~n.ok
    THEN pc' = "except" /\ exc' = n.err /\ clean' = FALSE /\ line' = {"main"}
    ELSE pc' = "after" /\ clean' = TRUE /\ line' = {} /\ UNCHANGED exc
\* a success that publishes nothing
PublishedNowhere(cf, newenv) ==
    /\ environ' = environ
    /\ called' = Invoked(cur, "success")
    /\ Reported(NameOf(cf, environ))

\* 377-379: os.environ[key] = value, then the success callback
Published(cf, newenv) ==
    /\ environ' = newenv
    /\ called' = Invoked(cur, "success")
    /\ Reported(NameOf(cf, newenv))
Succeed ==
    /\ pc = "succeed"
    /\ IF "stdout-to-env" \notin DOMAIN conf[cur]
       THEN Published(conf[cur], environ)
       ELSE IF PutenvRaises(conf[cur]["stdout-to-env"], strout(output[cur]))
       THEN /\ pc' = "except" /\ exc' = <<"embedded null byte">>
            /\ UNCHANGED <<environ, called, clean, line>>
       ELSE Published(conf[cur],
                      (conf[cur]["stdout-to-env"] :> strout(output[cur]))
                          @@ environ)
    /\ UNCHANGED <<proc_vars, call_vars, saved, listing>>
    /\ UNCHANGED <<conf, group, settings, rows, state, output, duration,
                   signal, animation_idx, skip, cur, detail, result, timer,
                   ticks, stdout_open, indentation>>

\* 412, 419, 426, 433, 439, 442 and Command._fail (367-371)
Fail ==
    /\ pc = "fail"
    /\ called' = [Invoked(cur, "failure") EXCEPT ![cur]["detail"] = detail]
    /\ Reported(NameOf(conf[cur], environ))
    /\ UNCHANGED <<proc_vars, call_vars, saved, listing>>
    /\ UNCHANGED <<conf, group, settings, rows, environ, state, output,
                   duration, signal, animation_idx, skip, cur, detail, result,
                   timer, ticks, stdout_open, indentation>>

\* the handlers of 443-448: the state is set, the failure callback gets
\* the text; what the callback raises leaves the call
Handled(n) ==
    IF ~stdout_open THEN CrashInWith(BrokenPipe, clean)
    ELSE IF ~n.ok THEN CrashInWith(n.err, FALSE)
    ELSE pc' = "after" /\ clean' = TRUE /\ line' = {}
         /\ exc' = <<>> /\ UNCHANGED indentation
Handle(newstate, text) ==
    /\ state' = [state EXCEPT ![cur] = newstate]
    /\ called' = [Invoked(cur, "failure") EXCEPT ![cur]["detail"] = text]
    /\ Handled(NameOf(conf[cur], environ))
    /\ UNCHANGED <<proc_vars, call_vars, saved, listing>>
    /\ UNCHANGED <<conf, group, settings, rows, environ, output, duration,
                   signal, animation_idx, skip, cur, detail, result, timer,
                   ticks, stdout_open>>

\* 443-445
ExceptTimeout ==
    /\ pc = "except_timeout"
    /\ Handle(STATE_TIMED_OUT, <<"Timed out">>)

\* 446-448: _fail(str(e)), and _fail passes n or self.strout
Except ==
    /\ pc = "except"
    /\ Handle(STATE_FAILED, IF exc # <<>> THEN exc ELSE strout(output[cur]))

\* Bugger._run (673-674), the end of the "with term" block after the last
\* command of a group, and the step to the next command
AfterCall ==
    /\ pc = "after"
    /\ skip' = (skip \/ (ExitOnFail(conf[cur], settings)
                          /\ state[cur] # STATE_SUCCESSFUL))
    /\ LET last == cur = NumCmds \/ group[cur + 1] # group[cur]
       IN  IF last /\ ~clean /\ ~stdout_open
           THEN Crash(BrokenPipe) /\ UNCHANGED <<cur, indentation, clean, line>>
           ELSE /\ indentation' = IF last THEN indentation - 1 ELSE indentation
                /\ clean' = IF last THEN TRUE ELSE clean
                /\ line' = IF last THEN {} ELSE line
                /\ pc' = IF cur = NumCmds THEN "run_end"
                         ELSE IF last THEN "group" ELSE "run"
                /\ cur' = IF cur = NumCmds THEN cur ELSE cur + 1
                /\ UNCHANGED exc
    /\ UNCHANGED <<proc_vars, call_vars, saved, listing>>
    /\ UNCHANGED <<conf, group, settings, rows, environ, state, output,
                   duration, signal, animation_idx, detail, result, timer,
                   ticks, stdout_open, called>>

(***************************************************************************)
(* The rest of Bugger.__call__.                                            *)
(***************************************************************************)
\* Bugger._run (675-676)
Collapsed(r) ==
    /\ Returns(r)
    /\ IF should_collapse /\ ~stdout_open THEN Crash(BrokenPipe)
       ELSE IF ~r.ok THEN Crash(r.err)
       ELSE pc' = "summary" /\ UNCHANGED exc
RunEnd ==
    /\ pc = "run_end"
    /\ Collapsed(IF should_collapse THEN CollapsedErr ELSE Return(<<>>))
    /\ Relisted(IF should_collapse THEN CollapsedErr ELSE Return(<<>>))
    /\ UNCHANGED <<proc_vars, call_vars, saved>>
    /\ UNCHANGED <<conf, group, settings, rows, environ, state, output,
                   duration, signal, animation_idx, skip, cur, detail, result,
                   timer, ticks, stdout_open, indentation, clean, line,
                   called>>

\* Bugger._print_summary (678-685)
PrintSummary ==
    /\ pc = "summary"
    /\ IF ~stdout_open THEN Crash(BrokenPipe) /\ UNCHANGED <<clean, line>>
       ELSE pc' = "stop_timer" /\ clean' = TRUE /\ line' = {}
            /\ UNCHANGED exc
    /\ UNCHANGED <<proc_vars, call_vars, saved, listing>>
    /\ UNCHANGED <<conf, group, settings, rows, environ, state, output,
                   duration, signal, animation_idx, skip, cur, detail, result,
                   timer, ticks, stdout_open, indentation, called>>

\* Bugger._stop_animation_timer (692-694)
StopAnimationTimer ==
    /\ pc = "stop_timer"
    /\ timer' = IF animation_enabled THEN FALSE ELSE timer
    /\ pc' = "save"
    /\ UNCHANGED <<proc_vars, call_vars, saved, listing>>
    /\ UNCHANGED <<conf, group, settings, rows, environ, state, output,
                   duration, signal, animation_idx, skip, cur, exc, detail,
                   result, ticks, stdout_open, indentation, clean, line,
                   called>>

\* Bugger._save_result (696-698) and Bugger._save (589-619), path being
\* normalize(self._settings['save-output']): the results are written
\* unless the path is empty
Saved(path) ==
    IF ~path.ok THEN Crash(path.err) /\ UNCHANGED saved
    ELSE saved' = (path.val # <<>>) /\ pc' = "reap" /\ UNCHANGED exc
SaveSkipped ==
    /\ pc = "save"
    /\ pc' = "reap"
    /\ UNCHANGED <<exc, saved>>
    /\ UNCHANGED <<proc_vars, call_vars, listing>>
    /\ UNCHANGED <<conf, group, settings, rows, environ, state, output,
                   duration, signal, animation_idx, skip, cur, detail,
                   result, timer, ticks, stdout_open, indentation, clean,
                   line, called>>
SaveResult ==
    /\ pc = "save"
    /\ IF "save-output" \in DOMAIN settings /\ settings["save-output"] # <<>>
       THEN Saved(normalize(settings["save-output"], environ))
       ELSE pc' = "reap" /\ UNCHANGED <<exc, saved>>
    /\ UNCHANGED <<proc_vars, call_vars, listing>>
    /\ UNCHANGED <<conf, group, settings, rows, environ, state, output,
                   duration, signal, animation_idx, skip, cur, detail,
                   result, timer, ticks, stdout_open, indentation, clean,
                   line, called>>

\* Bugger._reap_children (709-712): the children are listed; with none
\* the step returns
ReapChildren ==
    /\ pc = "reap"
    /\ children_pids' = Listed(children(my_pid))
    /\ pc' = IF children(my_pid) = {} THEN "return" ELSE "reap_kill"
    /\ UNCHANGED <<procs, call_vars, run_vars>>

\* the loop of line 713 goes on to the next child, or to the next pass
NextChild ==
    /\ children_pids' = Tail(children_pids)
    /\ pc' = IF Tail(children_pids) = <<>> THEN "reap" ELSE "reap_kill"

\* 714-718: os.kill(child, SIGKILL); what it raises for a child that is
\* gone or that the user may not signal is passed over, waitpid with it
ReapKill ==
    /\ pc = "reap_kill"
    /\ IF procs[Head(children_pids)].st = "none"
          \/ ~procs[Head(children_pids)].owned
       THEN NextChild /\ UNCHANGED procs
       ELSE /\ procs' = Dead(Head(children_pids))
            /\ pc' = "reap_wait"
            /\ UNCHANGED children_pids
    /\ UNCHANGED <<call_vars, run_vars>>

\* 716: os.waitpid(child, os.WSTOPPED) takes the killed child away
ReapWait ==
    /\ pc = "reap_wait"
    /\ procs' = [procs EXCEPT ![Head(children_pids)] = NoProc]
    /\ NextChild
    /\ UNCHANGED <<call_vars, run_vars>>

\* a process left behind ends of its own accord
ProcExit ==
    /\ pc \in {"reap", "reap_kill", "reap_wait"}
    /\ \E p \in Pids :
          /\ procs[p].st = "running"
          /\ procs' = Dead(p)
    /\ UNCHANGED <<pc, children_pids, call_vars, run_vars>>

\* a return value that looks at the last command only
FinishOnLast ==
    /\ pc = "return"
    /\ result' = IF state[NumCmds] = STATE_SUCCESSFUL THEN 0 ELSE 1
    /\ pc' = "done"
    /\ UNCHANGED <<proc_vars, call_vars, saved, listing>>
    /\ UNCHANGED <<conf, group, settings, rows, environ, state, output,
                   duration, signal, animation_idx, skip, cur, exc, detail,
                   timer, ticks, stdout_open, indentation, clean, line,
                   called>>

\* Bugger.__call__ (734)
Finish ==
    /\ pc = "return"
    /\ result' = IF \A c \in Cmds : state[c] = STATE_SUCCESSFUL THEN 0 ELSE 1
    /\ pc' = "done"
    /\ UNCHANGED <<proc_vars, call_vars, saved, listing>>
    /\ UNCHANGED <<conf, group, settings, rows, environ, state, output,
                   duration, signal, animation_idx, skip, cur, exc, detail,
                   timer, ticks, stdout_open, indentation, clean, line,
                   called>>

(***************************************************************************)
(* The timer signal and the reader of stdout.                              *)
(***************************************************************************)
\* the places of the main flow inside the try of 393-442
InTry == {"on_execute", "ex_name", "ex_cmd", "spawn", "wait"}

\* the command line 585 finds
Executing == Min({d \in Cmds : state[d] = STATE_EXECUTING})
\* what line 587 raises: n is str(c), cl the path and the arguments
Redraw(n, cl) ==
    IF ~stdout_open THEN BrokenPipe
    ELSE IF ~n.ok THEN n.err
    ELSE IF ~cl.ok THEN cl.err
    ELSE <<>>
Drawn(c, err) ==
    /\ animation_idx' = IF stdout_open
                        THEN [animation_idx EXCEPT ![c] = NextFrame(@)]
                        ELSE animation_idx
    /\ IF err = <<>>
       THEN /\ clean' = FALSE /\ line' = {"handler"}
            /\ UNCHANGED <<pc, exc, duration, indentation>>
       ELSE IF pc \in InTry
       THEN /\ RaiseInTry(err)
            /\ clean' = (clean /\ ~stdout_open)
            /\ line' = IF stdout_open THEN {"handler"} ELSE line
            /\ UNCHANGED indentation
       ELSE /\ CrashInWith(err, clean /\ ~stdout_open)
            /\ UNCHANGED duration
\* Bugger._animate (584-587), run between two steps of the main flow; an
\* exception it raises surfaces in the main flow where that stands
Animate ==
    /\ timer
    /\ ticks < MaxTicks
    /\ pc \notin {"crashed", "done"}
    /\ \E c \in Cmds : state[c] = STATE_EXECUTING
    /\ ticks' = ticks + 1
    /\ Drawn(Executing, Redraw(NameOf(conf[Executing], environ),
                                CommandLine(conf[Executing], environ)))
    /\ UNCHANGED <<proc_vars, call_vars, saved, listing>>
    /\ UNCHANGED <<conf, group, settings, rows, environ, state, output,
                   signal, skip, cur, detail, result, timer, stdout_open,
                   called>>

\* the process reading the runner's stdout goes away
ClosePipe ==
    /\ stdout_open
    /\ pc \notin {"crashed", "done"}
    /\ stdout_open' = FALSE
    /\ UNCHANGED <<proc_vars, call_vars, saved, listing>>
    /\ UNCHANGED <<conf, group, settings, rows, environ, state, output,
                   duration, signal, animation_idx, skip, cur, pc, exc,
                   detail, result, timer, ticks, indentation, clean, line,
                   called>>

Next ==
    \/ PrintPreRun \/ SetAnimationTimer \/ RunBegin \/ GroupHeader
    \/ RunStep \/ Call \/ Normalize \/ ExecBegin \/ ExecName \/ ExecCmd
    \/ Spawn \/ ChildDone \/ Succeed \/ Fail \/ ExceptTimeout \/ Except
    \/ AfterCall \/ RunEnd \/ PrintSummary \/ StopAnimationTimer
    \/ SaveResult \/ ReapChildren \/ Finish \/ Animate \/ ClosePipe

Spec == Init /\ [][Next]_vars

(***************************************************************************)
(* The reaping step on its own, with the processes three commands that     *)
(* all succeeded have left behind.                                         *)
(***************************************************************************)
\* the commands of the run the reaping step ends
Echo ==
    Cmd(<<"a">>, <<"e">>) @@ ("arguments" :> <<<<"h", "i">>>>)
        @@ ("stdout-to-env" :> <<"K">>)

\* Bugger.__call__ (725-730): the run of three such commands in one group,
\* without the animation, up to the reaping step
AfterRun ==
    /\ conf = [c \in Cmds |-> Echo]
    /\ group = [c \in Cmds |-> 1]
    /\ settings = ("animation" :> FALSE) @@ DefaultSettings
    /\ rows = 25
    /\ environ = (<<"A">> :> <<"x">>) @@ (<<"K">> :> <<"h", "i">>)
    /\ state = [c \in Cmds |-> STATE_SUCCESSFUL]
    /\ output = [c \in Cmds |-> <<"h", "i">>]
    /\ duration = [c \in Cmds |-> TRUE]
    /\ signal = [c \in Cmds |-> 0]
    /\ animation_idx = [c \in Cmds |-> 1]
    /\ skip = FALSE
    /\ cur = NumCmds
    /\ exc = <<>>
    /\ detail = <<>>
    /\ result = -1
    /\ timer = FALSE
    /\ ticks = 0
    /\ stdout_open = TRUE
    /\ indentation = 0
    /\ clean = TRUE
    /\ line = {}
    /\ called = [c \in Cmds |-> [call |-> 1, execute |-> 1, success |-> 1,
                                 failure |-> 0, skipped |-> 0,
                                 detail |-> <<>>]]

ReapInit ==
    /\ AfterRun
    /\ pc = "reap"
    /\ saved = FALSE
    /\ listing = [collapsed |-> FALSE, cmds |-> Cmds]
    /\ procs \in Forests
    /\ children_pids = <<>>
    /\ NoCall

ReapNext == ReapChildren \/ ReapKill \/ ReapWait \/ ProcExit \/ Finish

\* the runner is a running process: its own steps are taken
ReapSpec ==
    /\ ReapInit
    /\ [][ReapNext]_vars
    /\ WF_vars(ReapChildren \/ ReapKill \/ ReapWait \/ Finish)

(***************************************************************************)
(* The run of commands that publish their output and of commands that     *)
(* refer to what was published.                                            *)
(***************************************************************************)
RefK == <<"$", "{", "K", "}">>

\* the commands of such a run
Publishing == {
    Echo,
    Cmd(<<"a">>, <<"r">>) @@ ("stdout-to-env" :> <<"K">>),
    Cmd(<<"a">>, <<"e">>) @@ ("arguments" :> <<RefK>>),
    Cmd(<<"a">>, <<"f">>),
    Cmd(<<"a">>, <<"s">>) }

\* Bugger.__init__: the commands in one group, or each in a group of its own
PublishInit ==
    /\ conf \in [Cmds -> Publishing]
    /\ group \in {[c \in Cmds |-> 1], [c \in Cmds |-> c]}
    /\ settings = DefaultSettings
    /\ rows = 25
    /\ Constructed
    /\ NoCall

PublishSpec == PublishInit /\ [][Next]_vars

(***************************************************************************)
(* The run of commands that carry assertions on their output.              *)
(***************************************************************************)
\* the value of an assertion: a string, or a list of strings
Str(v) == [list |-> FALSE, v |-> v]
List(v) == [list |-> TRUE, v |-> v]
Hi == Cmd(<<"a">>, <<"e">>) @@ ("arguments" :> <<<<"h", "i">>>>)

\* the commands of such a run: all but the last print what they are given
Asserting == <<
    Hi @@ ("output-contains" :> List(<<<<"h">>, <<"i">>>>)),
    Hi @@ ("output-contains" :> List(<<<<"h">>, <<"z">>>>)),
    Hi @@ ("output-contains" :> Str(<<"h", "i">>)),
    Hi @@ ("output-contains" :> Str(<<"z">>)),
    Hi @@ ("!output-matches" :> Str(<<"h", "i">>)),
    Hi @@ ("!output-matches" :> Str(<<"z">>)),
    Cmd(<<"a">>, <<"e">>) @@ ("arguments" :> <<<<"h", "\n", "i">>>>)
        @@ ("!output-matches" :> List(<<<<"h">>, <<"i">>>>)),
    Cmd(<<"a">>, <<"s">>) >>

\* Bugger.__init__: the commands in one group, in the order of the list
\* above (no command of these has an effect on the ones after it)
AssertInit ==
    /\ \E i \in [Cmds -> 1..Len(Asserting)] :
          /\ \A c \in Cmds \ {1} : i[c - 1] <= i[c]
          /\ conf = [c \in Cmds |-> Asserting[i[c]]]
    /\ group = [c \in Cmds |-> 1]
    /\ settings = DefaultSettings
    /\ rows = 25
    /\ Constructed
    /\ NoCall

AssertSpec == AssertInit /\ [][Next]_vars

(***************************************************************************)
(* Runs whose results are saved, or not.                                   *)
(***************************************************************************)
\* settings['save-output'] after Bugger.__init__ (546-548): absent, the
\* empty string or a directory
SaveOutputs ==
    {DefaultSettings,
     ("save-output" :> <<>>) @@ DefaultSettings,
     ("save-output" :> <<"o">>) @@ DefaultSettings}

Saving == Basic \cup {Cmd(<<"a">>, <<"s">>)}

SaveInit ==
    /\ conf \in [Cmds -> Saving]
    /\ group \in {[c \in Cmds |-> 1], [c \in Cmds |-> c]}
    /\ settings \in SaveOutputs
    /\ rows = 25
    /\ Constructed
    /\ NoCall

SaveSpec == SaveInit /\ [][Next]_vars

(***************************************************************************)
(* Runs on terminals too short for the full listing, or just tall enough.  *)
(***************************************************************************)
\* at most one command is killed by a signal or hangs
Laying ==
    {f \in [Cmds -> {Plain, Cmd(<<"a">>, <<"f">>), Cmd(<<"a">>, <<"k">>),
                     Cmd(<<"a">>, <<"s">>)}] :
        Cardinality({c \in Cmds : f[c].exec \in {<<"k">>, <<"s">>}}) <= 1}

LayoutInit ==
    /\ conf \in Laying
    /\ group \in Layouts
    /\ settings \in {("enable-collapse" :> e) @@ DefaultSettings :
                        e \in BOOLEAN}
    /\ rows \in {NumCmds + 2, NumCmds + 3}
    /\ Constructed
    /\ NoCall

LayoutSpec == LayoutInit /\ [][Next]_vars

(***************************************************************************)
(* normalize and findMatching called on their own, for the strings below.  *)
(***************************************************************************)
\* a string is an opening, what stands between the brackets and a
\* closing, or no closing, with or without text before and after it
Bodies == {
    <<"A">>, <<"U">>,
    <<"A", ":", "-", "d">>, <<"U", ":", "-", "d">>, <<"U", ":", "d">>,
    <<"U", ":", "-", "d", ":", "e">>,
    <<"A", "|", "u", "p", "p", "e", "r">>,
    <<"e">>, <<"f">>,
    <<"$", "{", "A", "}">>, <<"$", "(", "e", ")">>,
    <<"$", "{", "U", ":", "-", ")", "}">>,
    <<"$", "(", "e", " ", "}", ")">> }
Templates ==
    {pre \o open \o body \o close \o post :
        pre \in {<<>>, <<"a">>},
        open \in {<<"$", "{">>, <<"$", "(">>, <<>>},
        body \in Bodies,
        close \in {<<"}">>, <<")">>, <<>>, <<"$">>},
        post \in {<<>>, <<"b">>}}
\* the last two have values that refer to a variable, as the host's
\* environment or a published output may
Environs ==
    {<<"A">> :> <<"x">>,
     (<<"A">> :> <<"U">>) @@ (<<"U">> :> <<"h", "i">>),
     <<"A">> :> <<"$", "{", "A", "}">>,
     (<<"A">> :> <<"$", "{", "U", "}">>)
        @@ (<<"U">> :> <<"$", "{", "A", "}">>)}

\* nothing has been called yet
NotCalled == [op |-> "none"]

\* the arguments of the call, inside a program that has just been
\* constructed
CallInit ==
    /\ arg \in [s : Templates, environ : Environs]
    /\ ret = NotCalled
    /\ conf = [c \in Cmds |-> Plain]
    /\ group = [c \in Cmds |-> 1]
    /\ settings = DefaultSettings
    /\ rows = 25
    /\ Constructed

\* normalize(s, environ) for a string (143-185); NoReturn stands for a
\* loop that does not end
Resolve ==
    /\ ret = NotCalled
    /\ ret' = [op |-> "normalize", r |-> normalize(arg.s, arg.environ)]
    /\ UNCHANGED <<arg, pc, proc_vars, run_vars>>

\* findMatching(s, idx1) at the first match of the regex (143-149)
Match ==
    /\ ret = NotCalled
    /\ SearchFrom(arg.s, 1) # 0
    /\ ret' = [op |-> "findMatching",
               idx |-> findMatching(arg.s, SearchFrom(arg.s, 1))]
    /\ UNCHANGED <<arg, pc, proc_vars, run_vars>>

CallNext == Resolve \/ Match

CallSpec == CallInit /\ [][CallNext]_vars

(***************************************************************************)
(* Command.__getattr__ called on its own, for one setting of one command.  *)
(***************************************************************************)
SettingNames == {"timeout", "expected-exit-code", "exit-on-fail", "chdir"}
\* two values a configuration may give the setting, and a third one
Values(name) ==
    CASE name = "timeout" -> <<1, 5, 7>>
      [] name = "expected-exit-code" -> <<1, 2, 3>>
      [] name = "exit-on-fail" -> <<TRUE, FALSE, TRUE>>
      [] name = "chdir" -> <<<<"d">>, <<"g">>, <<"h">>>>
\* the descriptors of a command: no setting, the setting in the settings
\* map, the setting as a key of the descriptor itself, and both
Descriptors(name) ==
    << Plain,
       Plain @@ ("settings" :> (name :> Values(name)[1])),
       Plain @@ ("settings" :> (name :> Values(name)[2])),
       Plain @@ (name :> Values(name)[1]),
       Plain @@ (name :> Values(name)[2]),
       Plain @@ ("settings" :> (name :> Values(name)[1]))
             @@ (name :> Values(name)[2]),
       Plain @@ ("settings" :> ("animation" :> FALSE)) >>
\* conf['settings'] of the configuration: absent or with the setting
Configurations(name) ==
    << <<>>,
       name :> Values(name)[2],
       name :> Values(name)[3],
       "animation" :> FALSE >>

\* Bugger.__init__ (524-530, 546-548): the defaults, updated with the
\* configuration's settings, each normalized in os.environ
NormalSetting(k, v) ==
    IF k = "chdir" THEN normalize(v, <<"A">> :> <<"x">>).val ELSE v
Configured(cs) ==
    [k \in DOMAIN cs \cup DOMAIN DefaultSettings |->
        IF k \in DOMAIN cs THEN NormalSetting(k, cs[k]) ELSE DefaultSettings[k]]

AttrInit ==
    /\ \E name \in SettingNames :
       \E d \in DOMAIN Descriptors(name), g \in DOMAIN Configurations(name) :
          arg = [name |-> name, conf |-> Descriptors(name)[d],
                 settings |-> Configurations(name)[g]]
    /\ ret = NotCalled
    /\ conf = [c \in Cmds |-> Plain]
    /\ group = [c \in Cmds |-> 1]
    /\ settings = DefaultSettings
    /\ rows = 25
    /\ Constructed

\* Command.__getattr__(name) of a command built by Bugger.__init__ (571)
GetAttr ==
    /\ ret = NotCalled
    /\ ret' = [op |-> "__getattr__",
               a |-> Attr(arg.conf, Configured(arg.settings), arg.name)]
    /\ UNCHANGED <<arg, pc, proc_vars, run_vars>>

AttrSpec == AttrInit /\ [][GetAttr]_vars

(***************************************************************************)
(* The claims.                                                             *)
(***************************************************************************)
\* the places of the main flow after the loop of _run
PostRun == {"run_end", "summary", "stop_timer", "save", "reap", "return",
            "done"}

\* the call c() of _run (671) has returned
Returned(c) ==
    /\ called[c].call >= 1
    /\ c < cur \/ (c = cur /\ pc \in {"after"} \cup PostRun)

\* C1: the state of a command never returns to NEW, and a terminal state
\* never changes
C1_StateMonotonic ==
    [][\A c \in Cmds :
          /\ state[c] # STATE_NEW => state'[c] # STATE_NEW
          /\ state[c] \in FinishedStates => state'[c] = state[c]]_vars

\* C2: a command is SKIPPED only if an earlier command of its own group
\* with a true exit-on-fail did not succeed
C2_SkipStaysInGroup ==
    \A c \in Cmds :
        state[c] = STATE_SKIPPED =>
            \E d \in Cmds :
                /\ d < c
                /\ group[d] = group[c]
                /\ ExitOnFail(conf[d], settings)
                /\ state[d] # STATE_SUCCESSFUL

\* d is an earlier sibling of c that has a true exit-on-fail and has ended
\* in a state other than SUCCESSFUL
Cascade(d, c) ==
    /\ d < c
    /\ group[d] = group[c]
    /\ ExitOnFail(conf[d], settings)
    /\ Returned(d)
    /\ state[d] # STATE_SUCCESSFUL

\* C3: after a command with a true exit-on-fail has ended unsuccessfully,
\* a later command of its group is never EXECUTING, gets no on-execute
\* callback and no child, and once it has been called it is SKIPPED and its
\* skip callback has run
C3_SkipCascade ==
    \A d, c \in Cmds :
        Cascade(d, c) =>
            /\ state[c] \in {STATE_NEW, STATE_SKIPPED}
            /\ called[c].execute = 0
            /\ ~duration[c]
            /\ output[c] = None
            /\ Returned(c) =>
                  state[c] = STATE_SKIPPED /\ called[c].skipped = 1

\* C3: the second and the third command of a group are SKIPPED after the
\* first, with exit-on-fail, has failed
C3_Witness ==
    /\ group[1] = group[3]
    /\ ExitOnFail(conf[1], settings)
    /\ state[1] = STATE_FAILED
    /\ state[2] = STATE_SKIPPED /\ called[2].skipped = 1
    /\ state[3] = STATE_SKIPPED /\ called[3].skipped = 1

\* the kinds of error normalize raises for a template it cannot resolve
ResolutionErrors ==
    {"Unresolved environment variable", "No such filter",
     "Missing closing bracket", "Could not execute command"}

\* C4: a template-resolution error never ends the run: it never leaves
\* the call of a command or the orchestrator
C4_ResolutionErrorCaught ==
    ~(pc = "crashed" /\ exc # <<>> /\ exc[1] \in ResolutionErrors)

\* C5: at most one command is EXECUTING
AtMostOneExecuting ==
    \A c, d \in Cmds :
        state[c] = STATE_EXECUTING /\ state[d] = STATE_EXECUTING => c = d

\* C5: a command is called at most once, and once when the loop has ended
InvokedOnce ==
    \A c \in Cmds :
        /\ called[c].call <= 1
        /\ (c < cur \/ pc \in PostRun) => called[c].call = 1

\* C5: a command becomes EXECUTING with every earlier command in a
\* terminal state and every later command NEW
EntersInOrder ==
    \A c \in Cmds :
        (state[c] # STATE_EXECUTING /\ state'[c] = STATE_EXECUTING) =>
            /\ \A d \in Cmds : d < c => state[d] \in FinishedStates
            /\ \A d \in Cmds : d > c => state[d] = STATE_NEW

\* C5: at most one command is EXECUTING in every state, a command enters
\* EXECUTING only with all earlier commands terminal and all later ones
\* NEW, and every command is called exactly once per run
C5_Sequential ==
    /\ [](AtMostOneExecuting /\ InvokedOnce)
    /\ [][EntersInOrder]_vars

\* C5: the second command is EXECUTING after the first has ended
C5_Witness ==
    /\ state[2] = STATE_EXECUTING
    /\ state[1] \in FinishedStates
    /\ state[3] = STATE_NEW
    /\ called[1].call = 1 /\ called[2].call = 1 /\ called[3].call = 0

\* C6: the handler never begins a line of its own while a line the main
\* flow has begun is not ended
C6_NoInterleaving ==
    [][(ticks' # ticks /\ "handler" \in line') => "main" \notin line]_vars

\* the handler has run and returned
HandlerReturned == ticks' # ticks /\ pc' = pc /\ exc' = exc

\* C7: the handler changes no field of any command and no entry of the
\* environment
C7_HandlerMutatesNothing ==
    [][HandlerReturned =>
          /\ state' = state /\ output' = output /\ duration' = duration
          /\ animation_idx' = animation_idx
          /\ environ' = environ]_vars

\* C7, amended: the handler changes no state, output, duration, signal or
\* descriptor of any command and no entry of the environment; the one
\* field it changes is the animation frame index of the EXECUTING
\* command, which advances by one frame, modulo the number of frames
C7_HandlerAdvancesFrameOnly ==
    [][HandlerReturned =>
          /\ state' = state /\ output' = output /\ duration' = duration
          /\ signal' = signal /\ conf' = conf
          /\ environ' = environ
          /\ animation_idx' =
                [animation_idx EXCEPT
                    ![Executing] = (animation_idx[Executing] + 1)
                                       % ANIMATION_LEN]]_vars

\* C7: the handler has painted the line of the EXECUTING command while
\* its child runs, and has advanced its frame beyond the one the
\* on-execute callback showed
C7_Witness ==
    /\ pc = "wait"
    /\ ticks = 2
    /\ line = {"handler"}
    /\ animation_idx[cur] = 3

\* C8: of the success, failure and skip callbacks of a command at most one
\* is invoked, at most once; when the call has returned exactly one has
\* been, the one of the state the command has ended in; on-execute is
\* invoked at most once and never for a skipped command
C8_ExactlyOneCallback ==
    \A c \in Cmds :
        /\ called[c].success + called[c].failure + called[c].skipped <= 1
        /\ called[c].execute <= 1
        /\ state[c] = STATE_SKIPPED => called[c].execute = 0
        /\ Returned(c) =>
              /\ called[c].success = 1 <=> state[c] = STATE_SUCCESSFUL
              /\ called[c].failure = 1 <=> state[c] \in FailedStates
              /\ called[c].skipped = 1 <=> state[c] = STATE_SKIPPED

\* the child of the command cur has returned: its return code
ChildReturned ==
    /\ pc \in {"after", "crashed"}
    /\ cur \in Cmds
    /\ output[cur] # None
ReturnCode == Started(CommandLine(conf[cur], environ)).returncode

\* C9: a return code that is not negative and differs from the expected
\* one ends in FAILED, a negative return code ends in SIGNALED with the
\* signal -rc
C9_ReturnCodeDecides ==
    ChildReturned =>
        /\ (ReturnCode >= 0
              /\ ReturnCode # Attr(conf[cur], settings,
                                   "expected-exit-code").val)
              => state[cur] = STATE_FAILED
        /\ ReturnCode < 0
              => state[cur] = STATE_SIGNALED /\ signal[cur] = -ReturnCode

\* C10: a TimeoutExpired sets TIMED_OUT and hands 'Timed out' to the
\* failure callback, with the duration recorded
TimeoutHandled ==
    (pc = "except_timeout" /\ pc' # pc /\ ticks' = ticks) =>
        /\ duration[cur]
        /\ state'[cur] = STATE_TIMED_OUT
        /\ called'[cur].failure = called[cur].failure + 1
        /\ called'[cur].detail = <<"Timed out">>

\* C10: a command that is TIMED_OUT stays so, with its duration and the
\* text its failure callback got
TimedOutStays ==
    \A c \in Cmds :
        state[c] = STATE_TIMED_OUT =>
            /\ duration[c]
            /\ called[c].failure = 1
            /\ called[c].detail = <<"Timed out">>

\* C10: the duration is recorded once the try of 394-400 has been left,
\* by a return or by an exception
DurationRecorded ==
    \A c \in Cmds :
        (\/ state[c] \in {STATE_SUCCESSFUL, STATE_FAILED, STATE_SIGNALED,
                          STATE_TIMED_OUT}
         \/ c = cur /\ pc \in {"succeed", "fail", "except", "except_timeout"})
            => duration[c]

\* C10: a child that outlives the timeout leaves the command TIMED_OUT,
\* the failure callback gets 'Timed out', and the duration is set; the
\* duration is set for every command that has left the try around the
\* spawn, whether by a return, a timeout or an error
C10_TimeoutAndDuration ==
    /\ [](TimedOutStays /\ DurationRecorded)
    /\ [][TimeoutHandled]_vars
    /\ [][\A c \in Cmds : state[c] = STATE_TIMED_OUT
                            => state'[c] = STATE_TIMED_OUT]_vars

\* C10: a command has timed out and the run has gone on to its end
C10_Witness ==
    /\ pc = "done"
    /\ \E c \in Cmds :
          /\ state[c] = STATE_TIMED_OUT
          /\ duration[c]
          /\ called[c].detail = <<"Timed out">>

\* C11: the value Bugger.__call__ returns is 0 when every command is
\* SUCCESSFUL at the end of the run and 1 in every other case; it is not
\* set before the return
C11_ExitCode ==
    /\ result \in {-1, 0, 1}
    /\ result # -1 <=> pc = "done"
    /\ pc = "done" =>
          (result = 0 <=> \A c \in Cmds : state[c] = STATE_SUCCESSFUL)

\* C11: the run has returned 1 with the last command SUCCESSFUL and an
\* earlier one FAILED
C11_Witness ==
    /\ pc = "done"
    /\ result = 1
    /\ state[NumCmds] = STATE_SUCCESSFUL
    /\ state[1] = STATE_FAILED

\* C12: the timer is not armed when the summary is painted, and with the
\* animation off it is never armed and the handler never runs
C12_TimerStoppedBeforeSummary ==
    /\ [][(pc = "summary" /\ pc' # pc) => ~timer]_vars
    /\ [](~animation_enabled => (~timer /\ ticks = 0))

\* C13: the reaping step returns, and when it has returned no process is
\* left that has the runner as its parent
C13_ReapTerminates ==
    /\ <>(pc = "return")
    /\ [](pc \in {"return", "done"} => children(my_pid) = {})

\* the command d has a stdout-to-env key
Publishes(d) == "stdout-to-env" \in DOMAIN conf[d]

\* d has ended SUCCESSFUL with its output published, and no command
\* between d and c publishes
Visible(d, c) ==
    /\ d < c
    /\ Publishes(d)
    /\ state[d] = STATE_SUCCESSFUL
    /\ \A e \in Cmds : (d < e /\ e < c) => ~Publishes(e)

\* the fields of the command cur are being resolved (390-391), and its
\* argument is a reference to K that it does not override
Resolves ==
    /\ pc = "normalize"
    /\ pc' = "on_execute"
    /\ "environment" \notin DOMAIN conf[cur]
    /\ "arguments" \in DOMAIN conf[cur]
    /\ conf[cur]["arguments"] = <<RefK>>

\* C14: once a command with stdout-to-env = K has ended SUCCESSFUL the
\* environment maps K to its output, until a later command publishes
PublishedStays ==
    \A d \in Cmds :
        (/\ Publishes(d)
         /\ Returned(d)
         /\ state[d] = STATE_SUCCESSFUL
         /\ \A e \in Cmds : (e > d /\ Publishes(e)) => called[e].success = 0)
            => /\ conf[d]["stdout-to-env"] \in DOMAIN environ
               /\ environ[conf[d]["stdout-to-env"]] = strout(output[d])

ExitCodeExpected(c) ==
    /\ CommandLine(conf[c], environ).ok
    /\ Started(CommandLine(conf[c], environ)).kind = "exit"
    /\ Started(CommandLine(conf[c], environ)).returncode
          = Attr(conf[c], settings, "expected-exit-code").val

\* one of the strings of output-contains of the descriptor cf is not in
\* the output out
Absent(cf, out) ==
    \E i \in 1..Len(AsList(cf["output-contains"])) :
        ~Contains(strout(out), AsList(cf["output-contains"])[i])

\* output-contains is the one assertion of the descriptor cf
OnlyContains(cf) ==
    /\ "output-contains" \in DOMAIN cf
    /\ DOMAIN cf \cap {"output-matches", "!output-contains",
                        "success-command"} = {}

\* the step of lines 402-442 that sets the state from the outcome
Verdicts == pc = "wait" /\ pc' \in {"succeed", "fail"}

EqualsForbidden(c) ==
    /\ "!output-matches" \in DOMAIN conf[c]
    /\ strout(output[c]) = JoinMatches(conf[c])["!output-matches"].v

\* C18: with the expected exit code, a command ends FAILED when its
\* output equals the string of its !output-matches
C18_NotOutputMatches ==
    \A c \in Cmds :
        (/\ Returned(c)
         /\ output[c] # None
         /\ ExitCodeExpected(c)
         /\ EqualsForbidden(c)) => state[c] = STATE_FAILED

\* a string with one reference ${...} and nothing else special: one "$",
\* followed by "{", one "}" after it, no "|" and no "("
OneReference(s, i, j) ==
    /\ i + 1 < j
    /\ s[i] = "$" /\ s[i + 1] = "{" /\ s[j] = "}"
    /\ \A k \in DOMAIN s :
          /\ s[k] = "$" => k = i
          /\ s[k] = "}" => k = j
          /\ s[k] \notin {"|", "(", ")"}
\* the name of a reference: what stands before the first ":"
VarOf(b) ==
    IF \E k \in DOMAIN b : b[k] = ":"
    THEN SubSeq(b, 1, Min({k \in DOMAIN b : b[k] = ":"}) - 1)
    ELSE b
\* a default is given: ":-" follows the name
DefaultGiven(b) ==
    /\ Len(VarOf(b)) + 2 <= Len(b)
    /\ b[Len(VarOf(b)) + 1] = ":"
    /\ b[Len(VarOf(b)) + 2] = "-"
\* the text after ":-"
DefaultOf(b) == SubSeq(b, Len(VarOf(b)) + 3, Len(b))
\* what the reference b stands for in env
Stands(b, env) ==
    IF VarOf(b) \in DOMAIN env THEN Return(env[VarOf(b)])
    ELSE IF DefaultGiven(b) THEN Return(DefaultOf(b))
    ELSE Raise("Unresolved environment variable", VarOf(b))
Spliced(pre, r, post) == IF r.ok THEN Return(pre \o r.val \o post) ELSE r
HasToken(s) ==
    \E i \in DOMAIN s :
        i < Len(s) /\ s[i] = "$" /\ s[i + 1] \in {"{", "("}

\* C16: normalize replaces a reference ${VAR...} by the environment's value
\* of VAR when VAR is present, otherwise by the text after ":-" when a
\* default is given, and otherwise raises the unresolved-variable error; a
\* string without a reference token is returned unchanged.
C16_ReferenceResolved ==
    ret.op = "normalize" =>
        /\ ~HasToken(arg.s) => ret.r = Return(arg.s)
        /\ \A i, j \in DOMAIN arg.s :
              OneReference(arg.s, i, j) =>
                  ret.r = Spliced(SubSeq(arg.s, 1, i - 1),
                                  Stands(SubSeq(arg.s, i + 2, j - 1),
                                         arg.environ),
                                  SubSeq(arg.s, j + 1, Len(arg.s)))

\* the closing bracket of the opening at idx: an opening of either kind
\* after it is closed by its own closing bracket first
RECURSIVE Paired(_, _, _)
Paired(s, i, open) ==
    IF i > Len(s) THEN 0
    ELSE IF i < Len(s) /\ s[i] = "$" /\ s[i + 1] \in {"{", "("}
    THEN Paired(s, i + 2, <<s[i + 1]>> \o open)
    ELSE IF s[i] = closeToken(Head(open))
    THEN IF Tail(open) = <<>> THEN i ELSE Paired(s, i + 1, Tail(open))
    ELSE Paired(s, i + 1, open)
Pairing(s, idx) == Paired(s, idx + 2, <<s[idx + 1]>>)
\* some opening of s has no closing bracket
Unmatched(s) ==
    \E i \in DOMAIN s :
        i < Len(s) /\ s[i] = "$" /\ s[i + 1] \in {"{", "("}
            /\ Pairing(s, i) = 0

\* C17: findMatching gives the closing bracket that belongs to the opening
\* it is called for, whatever references stand between them, and normalize
\* raises "Missing closing bracket", and nothing else, for every string in
\* which an opening has no closing bracket.
C17_BracketsPaired ==
    /\ ret.op = "findMatching" =>
          ret.idx = Pairing(arg.s, SearchFrom(arg.s, 1))
    /\ (ret.op = "normalize" /\ Unmatched(arg.s)) =>
          ret.r = Raise("Missing closing bracket", <<>>)

\* the value the configuration gives a setting, the default where it gives
\* none: timeout 10, exit-on-fail false, expected-exit-code 0
Global(cs, name) ==
    IF name \in DOMAIN cs THEN [has |-> TRUE, val |-> cs[name]]
    ELSE CASE name = "timeout" -> [has |-> TRUE, val |-> 10]
           [] name = "exit-on-fail" -> [has |-> TRUE, val |-> FALSE]
           [] name = "expected-exit-code" -> [has |-> TRUE, val |-> 0]
           [] OTHER -> [has |-> FALSE]
InSettings(cf, name) ==
    "settings" \in DOMAIN cf /\ name \in DOMAIN cf["settings"]

\* C19 as stated: the effective value of a setting is the one the command
\* descriptor supplies, in its settings or as a key of its own, and the
\* global setting or the default otherwise.
C19_DescriptorOverrides ==
    ret.op = "__getattr__" =>
        ret.a = IF InSettings(arg.conf, arg.name)
                THEN [has |-> TRUE, val |-> arg.conf["settings"][arg.name]]
                ELSE IF arg.name \in DOMAIN arg.conf
                THEN [has |-> TRUE, val |-> arg.conf[arg.name]]
                ELSE Global(arg.settings, arg.name)

\* C19: the effective value of timeout, expected-exit-code, chdir and
\* exit-on-fail of a command is the one its descriptor's settings map
\* supplies, whatever the global setting is, and the global setting or the
\* default otherwise.
C19_SettingsOverride ==
    ret.op = "__getattr__" =>
        ret.a = IF InSettings(arg.conf, arg.name)
                THEN [has |-> TRUE, val |-> arg.conf["settings"][arg.name]]
                ELSE Global(arg.settings, arg.name)
\* an override was asked for, against a global setting that differs from it
C19_Witness ==
    /\ ret.op = "__getattr__"
    /\ InSettings(arg.conf, arg.name)
    /\ arg.name \in DOMAIN arg.settings
    /\ arg.name = "timeout"
    /\ arg.settings[arg.name] # arg.conf["settings"][arg.name]
    /\ ret.a.val = 1

\* how many commands are in state st
NumIn(st) == Cardinality({c \in Cmds : state[c] = st})
\* the configuration asks for the results to be saved
SaveWanted ==
    "save-output" \in DOMAIN settings /\ settings["save-output"] # <<>>

\* C20: the summary is painted only when every command is in a terminal
\* state, and the total it shows is the sum of the successful, failed,
\* signaled, timed-out and skipped counts; results are saved only after the
\* summary has been painted; the reaping starts only after the saving, with
\* the results saved when saving was asked for.
C20_SummarySaveReap ==
    /\ [][(pc = "summary" /\ pc' = "stop_timer") =>
            /\ \A c \in Cmds : state[c] \in FinishedStates
            /\ NumCmds = NumIn(STATE_SUCCESSFUL) + NumIn(STATE_FAILED)
                           + NumIn(STATE_SIGNALED) + NumIn(STATE_TIMED_OUT)
                           + NumIn(STATE_SKIPPED)]_vars
    /\ [][(pc' = "stop_timer" /\ pc # "stop_timer") => pc = "summary"]_vars
    /\ [][(pc' = "save" /\ pc # "save") => pc = "stop_timer"]_vars
    /\ [][saved' # saved => (pc = "save" /\ pc' = "reap")]_vars
    /\ [][(pc' = "reap" /\ pc # "reap") => pc = "save"]_vars
    /\ [](pc \in {"reap", "return", "done"} => (saved <=> SaveWanted))
\* a run with a successful, a failed and a skipped command, about to reap
\* after its results were saved
C20_Witness ==
    /\ pc = "reap"
    /\ saved
    /\ state = <<STATE_SUCCESSFUL, STATE_FAILED, STATE_SKIPPED>>

\* every command of the group g is in a terminal state
Over(g) == \A c \in CommandsOf(g) : state[c] \in FinishedStates
\* the collapsed renderer is to be chosen
Chosen ==
    settings["enable-collapse"] /\ Cardinality(Groups) + NumCmds + 1 > rows
\* what the collapsed renderer is to list: the failing commands of the
\* groups that are over and every command of the first group that is not
ToList ==
    {c \in Cmds :
        \/ Over(group[c])
              /\ state[c] \in {STATE_FAILED, STATE_SIGNALED, STATE_TIMED_OUT}
        \/ ~Over(group[c])
              /\ \A g \in Groups : g < group[c] => Over(g)}

\* C21: at each layout decision the collapsed renderer is chosen exactly
\* when enable-collapse is true and groups + commands + 1 is greater than
\* the terminal's rows; it then lists the failing commands of every finished
\* group, every command of the active group and no command of another group.
C21_CollapsedLayout ==
    /\ [][(pc = "pre_run" /\ pc' = "set_timer") =>
            listing' = [collapsed |-> Chosen,
                        cmds |-> IF Chosen THEN ToList ELSE Cmds]]_vars
    /\ [][(pc \in {"group", "run_end"} /\ pc' \in {"run", "summary"}) =>
            listing' = IF Chosen
                       THEN [collapsed |-> TRUE, cmds |-> ToList]
                       ELSE listing]_vars
    /\ [](listing.collapsed => Chosen)
\* the collapsed renderer has listed the failed command of the first group
\* and the commands of the last, and not the successful one of the first
C21_Witness ==
    /\ listing = [collapsed |-> TRUE, cmds |-> {2, 3}]
    /\ group = <<1, 1, 2>>
    /\ state = <<STATE_SUCCESSFUL, STATE_FAILED, STATE_NEW>>
    /\ pc = "run"

\* C22: EXECUTING is transient: once the execute operation of a command
\* has returned or raised, whatever step of it has failed, the command is
\* not EXECUTING any more.
C22_ExecutingTransient ==
    \A c \in Cmds :
        state[c] = STATE_EXECUTING => (c = cur /\ pc \notin {"after", "crashed"})

\* C23: normalize ends for every string and every environment, also one
\* whose values hold references themselves: it returns a string or raises.
C23_ResolutionEnds ==
    ret.op = "normalize" => Returns(ret.r)

\* C24: executing a command changes the environment only in the step that
\* publishes the output of a SUCCESSFUL command with a stdout-to-env key,
\* and only at that key; a command that ends FAILED, SIGNALED, TIMED_OUT
\* or SKIPPED leaves the environment as it was, so that every entry the
\* environment has gained is the output of a command that is SUCCESSFUL.
C24_OnlySuccessPublishes ==
    /\ [][environ' # environ =>
            /\ pc = "succeed"
            /\ state[cur] = STATE_SUCCESSFUL
            /\ Publishes(cur)
            /\ \A k \in DOMAIN environ :
                  k # conf[cur]["stdout-to-env"] =>
                      k \in DOMAIN environ' /\ environ'[k] = environ[k]
            /\ DOMAIN environ' \subseteq
                  DOMAIN environ \cup {conf[cur]["stdout-to-env"]}]_vars
    /\ [](\A k \in DOMAIN environ :
            k # <<"A">> =>
                \E c \in Cmds :
                    /\ Publishes(c)
                    /\ conf[c]["stdout-to-env"] = k
                    /\ state[c] = STATE_SUCCESSFUL)

====
